---- MODULE Spec2Model ----
(***************************************************************************)
(* FAATileConverter: the chart download pipeline (download_faa_charts.py), *)
(* the metadata store (utils.py) and the conversion driver                 *)
(* (convert_faa_charts.py) as state machines.                              *)
(*                                                                         *)
(* Python values are tagged records, JSON text is a sequence of tokens,    *)
(* files are records holding a token sequence.  indent=2 only adds white   *)
(* space between tokens and is not represented.                            *)
(***************************************************************************)
EXTENDS Integers, Sequences, FiniteSets, TLC

VARIABLES
    primary,      \* the file METADATA_PATH
    bak,          \* the file METADATA_PATH + '.bak'
    tmp,          \* the file METADATA_PATH + '.tmp'
    fd,           \* per thread: where the inode of its open tmp handle lives now
    snap,         \* per thread: the mapping json.dump started to iterate
    metadata,     \* the in-memory metadata mapping of the running process
    pc,           \* per thread: position in its code (thread 0 is the main thread)
    call,         \* history: primary, .bak and argument at the last call of backup_and_save_metadata
    loaded,       \* outcome of the last load of the metadata file
    wrote,        \* history: per shared object, the threads that wrote it in this batch
    listing,      \* upstream: per chart type, the links the FAA page lists
    zips,         \* archives on disk under DOWNLOAD_DIR
    extracted,    \* extract paths into which an archive was extracted completely
    run,          \* number of runs of main started
    args,         \* command line of the current run
    phase,        \* chart type of the current batch
    to_download,  \* the links the current batch dispatched
    result,       \* per task: the (success, err) download_and_extract_zip returned
    ndl,          \* history: calls of download_file in the current run
    allok,        \* history: no chart failed so far in the current run
    prev,         \* history: how the previous run ended
    used,         \* history: saves called and interruptions suffered so far
    environ,      \* converter: the GDAL tools on the PATH and FAA_TILE_ZOOM
    downloads,    \* converter: the TIFF files under DOWNLOAD_DIR
    conv_args,    \* converter: command line of the current run
    jobs,         \* converter: the TIFF paths process_all_tiffs dispatched
    failed,       \* converter: the list of file names that failed to convert
    ret,          \* converter: per thread, what convert_tiff returned
    tiled,        \* converter history: the invocations of gdal2tiles.py
    vrts,         \* converter: the .vrt files on disk
    web,          \* upstream: the FAA pages, and the chart types whose links were fetched
    dl            \* one call of download_file: its arguments, loop position and history

store == <<primary, bak, tmp, fd, snap, metadata, pc, call, loaded, wrote>>
conv == <<environ, downloads, conv_args, jobs, failed, ret, tiled, vrts>>
net == <<web, dl>>
pipe == <<listing, zips, extracted, run, args, phase, to_download, result, ndl, allok, prev, used, conv, net>>
vars == <<store, pipe>>

----------------------------------------------------------------------------
(* Bounds *)

\* number of links one chart type lists, hence of worker tasks in a batch
MaxTasks == 2

\* number of links the three listings hold together
MaxLinks == 2

\* number of runs of main
MaxRuns == 2

\* os.cpu_count()
Cpus == 2

\* number of chart records in a metadata mapping drawn as an input
MaxRecords == 1

\* number of saves the store process is asked for
MaxSaves == 2

\* number of times the store process is interrupted
MaxKills == 1
MaxConvRuns == 1
MaxPageItems == 2
\* largest value of the retries argument of download_file
MaxRetries == 3

Threads == 0 .. MaxTasks
Workers == 1 .. MaxTasks

----------------------------------------------------------------------------
(* Python values *)

PyNone == [type |-> "NoneType", v |-> "None", items |-> <<>>]
PyBool(b) == [type |-> "bool", v |-> IF b THEN "True" ELSE "False", items |-> <<>>]
PyStr(s) == [type |-> "str", v |-> s, items |-> <<>>]
PyDict(f) == [type |-> "dict", v |-> "", items |-> f]
EmptyDict == PyDict(<<>>)

\* d.get(k, default)
DictGet(d, k, default) ==
    IF k \in DOMAIN d.items THEN d.items[k] ELSE default

\* d[k] = val
DictSet(d, k, val) ==
    PyDict([x \in (DOMAIN d.items) \cup {k} |-> IF x = k THEN val ELSE d.items[x]])

\* f"{value}"
Format(x) == x.v

----------------------------------------------------------------------------
(* JSON text: json.dump and json.load *)

Tok(s) == [q |-> FALSE, s |-> s]
Lit(s) == [q |-> TRUE, s |-> s]

RECURSIVE SetToSeq(_)
SetToSeq(S) ==
    IF S = {} THEN <<>>
    ELSE LET k == CHOOSE x \in S : TRUE IN <<k>> \o SetToSeq(S \ {k})

RECURSIVE JsonDumps(_), DumpItems(_, _)
\* a faulty variant: None is written as the text of str(None)
JsonDumpsNoneAsText(x) ==
    CASE x.type = "NoneType" -> <<Lit("None")>>
      [] x.type = "bool" -> <<Tok(IF x.v = "True" THEN "true" ELSE "false")>>
      [] x.type = "str" -> <<Lit(x.v)>>
      [] x.type = "dict" ->
            <<Tok("{")>> \o DumpItems(x.items, SetToSeq(DOMAIN x.items)) \o <<Tok("}")>>

JsonDumps(x) ==
    CASE x.type = "NoneType" -> <<Tok("null")>>
      [] x.type = "bool" -> <<Tok(IF x.v = "True" THEN "true" ELSE "false")>>
      [] x.type = "str" -> <<Lit(x.v)>>
      [] x.type = "dict" ->
            <<Tok("{")>> \o DumpItems(x.items, SetToSeq(DOMAIN x.items)) \o <<Tok("}")>>

DumpItems(f, ks) ==
    IF ks = <<>> THEN <<>>
    ELSE <<Lit(ks[1]), Tok(":")>> \o JsonDumps(f[ks[1]])
         \o (IF Len(ks) > 1 THEN <<Tok(",")>> ELSE <<>>)
         \o DumpItems(f, Tail(ks))

ParseFail == [ok |-> FALSE, val |-> PyNone, next |-> 0]
ParseOk(val, next) == [ok |-> TRUE, val |-> val, next |-> next]

RECURSIVE ParseValue(_, _), ParseMembers(_, _, _)
ParseValue(t, i) ==
    IF i > Len(t) THEN ParseFail
    ELSE IF t[i].q THEN ParseOk(PyStr(t[i].s), i + 1)
    ELSE CASE t[i].s = "null" -> ParseOk(PyNone, i + 1)
           [] t[i].s = "true" -> ParseOk(PyBool(TRUE), i + 1)
           [] t[i].s = "false" -> ParseOk(PyBool(FALSE), i + 1)
           [] t[i].s = "{" ->
                 IF i + 1 <= Len(t) /\ t[i + 1] = Tok("}")
                 THEN ParseOk(EmptyDict, i + 2)
                 ELSE ParseMembers(t, i + 1, EmptyDict)
           [] OTHER -> ParseFail

\* position i is just after '{' or ',': a key, ':', a value, then ',' or '}'
ParseMembers(t, i, acc) ==
    IF i + 2 > Len(t) THEN ParseFail
    ELSE IF ~t[i].q \/ t[i + 1] # Tok(":") THEN ParseFail
    ELSE LET r == ParseValue(t, i + 2) IN
         IF ~r.ok THEN ParseFail
         ELSE IF r.next > Len(t) THEN ParseFail
         ELSE IF t[r.next] = Tok(",")
              THEN ParseMembers(t, r.next + 1, DictSet(acc, t[i].s, r.val))
         ELSE IF t[r.next] = Tok("}")
              THEN ParseOk(DictSet(acc, t[i].s, r.val), r.next + 1)
         ELSE ParseFail

\* json.load(f): the value, or an exception (JSONDecodeError)
JsonLoad(data) ==
    LET r == ParseValue(data, 1) IN
    IF r.ok /\ r.next = Len(data) + 1
    THEN [raised |-> FALSE, val |-> r.val]
    ELSE [raised |-> TRUE, val |-> PyNone]

----------------------------------------------------------------------------
(* Files *)

NoFile == [exists |-> FALSE, data |-> <<>>]
File(d) == [exists |-> TRUE, data |-> d]

\* bytes written at offset 0 of a file that already has content
Overlay(new, old) ==
    IF Len(new) >= Len(old) THEN new
    ELSE new \o SubSeq(old, Len(new) + 1, Len(old))

Prefixes(text) == {SubSeq(text, 1, k) : k \in 0 .. Len(text)}

Depth(text, k) ==
    Cardinality({i \in 1 .. k : text[i] = Tok("{")})
    - Cardinality({i \in 1 .. k : text[i] = Tok("}")})

\* what json.dump has written when the iteration of the mapping or of one of
\* its chart-type mappings raises: the text up to the opening brace or the
\* last complete item of such a mapping
DumpCuts(text) ==
    {SubSeq(text, 1, k) : k \in {i \in 1 .. Len(text) - 1 :
        /\ text[i] \in {Tok("{"), Tok("}")}
        /\ Depth(text, i) \in {1, 2}}}

----------------------------------------------------------------------------
(* download_faa_charts.load_metadata *)

\* a faulty variant: the try/except around json.load is missing
load_metadata_unguarded(f) ==
    IF f.exists THEN JsonLoad(f.data) ELSE [raised |-> FALSE, val |-> EmptyDict]

load_metadata(f) ==
    IF f.exists
    THEN LET r == JsonLoad(f.data) IN
         IF r.raised THEN [raised |-> FALSE, val |-> EmptyDict]
         ELSE [raised |-> FALSE, val |-> r.val]
    ELSE [raised |-> FALSE, val |-> EmptyDict]

\* the outcome of load_metadata together with the file it read
Loaded(f) ==
    [from |-> f, raised |-> load_metadata(f).raised, val |-> load_metadata(f).val]

----------------------------------------------------------------------------
(* Charts and their metadata records *)

\* datetime.now(timezone.utc).isoformat(): the wall clock is not modelled
Now == "ts"

Url(dir, stem, ext) == [dir |-> dir, stem |-> stem, ext |-> ext]

\* os.path.basename(url), url.split('/')[-1]
Basename(url) == url.stem \o url.ext

\* fname.replace('.zip', '')
StripZip(url) == IF url.ext = ".zip" THEN url.stem ELSE url.stem \o url.ext

Entry(code, date, url) == [chart_code |-> code, published_date |-> date, url |-> url]

\* f"{entry['chart_code']}_{entry['published_date']}"
IfrKey(entry) == entry.chart_code \o "_" \o Format(entry.published_date)

VfrRecord == PyDict("downloaded" :> PyBool(TRUE) @@ "timestamp" :> PyStr(Now))

IfrRecord(entry) ==
    PyDict("downloaded" :> PyBool(TRUE)
           @@ "published_date" :> entry.published_date
           @@ "timestamp" :> PyStr(Now))

\* a faulty variant: the sub-mapping is replaced by one holding only the record
SetRecordFresh(md, chart_type, key, record) ==
    DictSet(md, chart_type, DictSet(EmptyDict, key, record))

\* metadata.setdefault(chart_type, {})[key] = record
SetRecord(md, chart_type, key, record) ==
    DictSet(md, chart_type, DictSet(DictGet(md, chart_type, EmptyDict), key, record))

\* the record download_and_extract_single_vfr / _ifr writes for a chart
RecordChart(md, chart_type, item) ==
    IF chart_type = "vfr"
    THEN SetRecord(md, "vfr", Basename(item), VfrRecord)
    ELSE SetRecord(md, chart_type, IfrKey(item), IfrRecord(item))

\* the key sets json.dump iterates: a dict that changes size while it is
\* iterated raises RuntimeError
KeySig(md) == [k \in DOMAIN md.items |-> DOMAIN md.items[k].items]

----------------------------------------------------------------------------
(* utils.backup_and_save_metadata, one statement per step, run by thread w *)

AfterSave(w) == IF w = 0 THEN "save_ret" ELSE "done"

Mark(w, objs) == [o \in DOMAIN wrote |-> IF o \in objs THEN wrote[o] \cup {w} ELSE wrote[o]]

\* the file an open handle writes to
Target(w) == IF fd[w] \in {"tmp", "primary"} THEN {fd[w]} ELSE {}

\* a faulty variant: the backup copy is skipped
SaveCopySkipped(w) ==
    /\ pc[w] = "save_copy"
    /\ pc' = [pc EXCEPT ![w] = "save_open"]
    /\ UNCHANGED <<primary, bak, tmp, fd, snap, metadata, call, loaded, wrote, pipe>>

\* if os.path.exists(path): shutil.copy(path, path + '.bak')
SaveCopy(w) ==
    /\ pc[w] = "save_copy"
    /\ bak' = IF primary.exists THEN File(primary.data) ELSE bak
    /\ pc' = [pc EXCEPT ![w] = "save_open"]
    /\ wrote' = IF primary.exists THEN Mark(w, {"bak"}) ELSE wrote
    /\ UNCHANGED <<primary, tmp, fd, snap, metadata, call, loaded, pipe>>

\* open(tmp_path, 'w'): creates the file or truncates the inode it names
SaveOpen(w) ==
    /\ pc[w] = "save_open"
    /\ tmp' = File(<<>>)
    /\ fd' = [fd EXCEPT ![w] = "tmp"]
    /\ snap' = [snap EXCEPT ![w] = metadata]
    /\ pc' = [pc EXCEPT ![w] = "save_write"]
    /\ wrote' = Mark(w, {"tmp"})
    /\ UNCHANGED <<primary, bak, metadata, call, loaded, pipe>>

\* the text reaches the inode of the handle, wherever that inode is linked now
WriteThrough(w, text) ==
    /\ tmp' = IF fd[w] = "tmp" THEN File(Overlay(text, tmp.data)) ELSE tmp
    /\ primary' = IF fd[w] = "primary" THEN File(Overlay(text, primary.data)) ELSE primary
    /\ fd' = [fd EXCEPT ![w] = "none"]

\* json.dump(metadata, f, indent=2) and the close of the with block
SaveWrite(w) ==
    /\ pc[w] = "save_write"
    /\ WriteThrough(w, JsonDumps(snap[w]))
    /\ snap' = [snap EXCEPT ![w] = EmptyDict]
    /\ pc' = [pc EXCEPT ![w] = "save_replace"]
    /\ wrote' = Mark(w, Target(w))
    /\ UNCHANGED <<bak, metadata, call, loaded, pipe>>

\* json.dump meets a dict another thread has grown: RuntimeError, the with
\* block closes the file with what was written so far
SaveWriteRaise(w) ==
    /\ pc[w] = "save_write"
    /\ KeySig(metadata) # KeySig(snap[w])
    /\ \E part \in DumpCuts(JsonDumps(snap[w])) : WriteThrough(w, part)
    /\ snap' = [snap EXCEPT ![w] = EmptyDict]
    /\ pc' = [pc EXCEPT ![w] = "raised"]
    /\ wrote' = Mark(w, Target(w))
    /\ UNCHANGED <<bak, metadata, call, loaded, pipe>>

\* os.replace(tmp_path, path)
SaveReplace(w) ==
    /\ pc[w] = "save_replace"
    /\ tmp.exists
    /\ primary' = tmp
    /\ tmp' = NoFile
    /\ fd' = [t \in Threads |->
                IF fd[t] = "tmp" THEN "primary"
                ELSE IF fd[t] = "primary" THEN "orphan"
                ELSE fd[t]]
    /\ pc' = [pc EXCEPT ![w] = AfterSave(w)]
    /\ wrote' = Mark(w, {"primary", "tmp"})
    /\ UNCHANGED <<bak, snap, metadata, call, loaded, pipe>>

\* os.replace when another thread has already renamed the .tmp file away:
\* FileNotFoundError
SaveReplaceRaise(w) ==
    /\ pc[w] = "save_replace"
    /\ ~tmp.exists
    /\ pc' = [pc EXCEPT ![w] = "raised"]
    /\ UNCHANGED <<primary, bak, tmp, fd, snap, metadata, call, loaded, wrote, pipe>>

----------------------------------------------------------------------------
(* download_faa_charts: the is-current predicates and the places on disk *)

ChartTypes == {"vfr", "ifr_low", "ifr_high"}

\* a faulty variant: the lookup forgets the extension of the archive name
is_vfr_chart_current_stem(md, url) ==
    DictGet(DictGet(md, "vfr", EmptyDict), url.stem, PyNone) # PyNone

\* metadata.get('vfr', {}).get(fname) is not None
is_vfr_chart_current(md, url) ==
    DictGet(DictGet(md, "vfr", EmptyDict), Basename(url), PyNone) # PyNone

\* metadata.get(chart_type, {}).get(key) is not None
is_ifr_chart_current(md, entry, chart_type) ==
    DictGet(DictGet(md, chart_type, EmptyDict), IfrKey(entry), PyNone) # PyNone

IsCurrent(md, chart_type, item) ==
    IF chart_type = "vfr" THEN is_vfr_chart_current(md, item)
    ELSE is_ifr_chart_current(md, item, chart_type)

\* the key a chart is recorded under
Identity(chart_type, item) ==
    IF chart_type = "vfr" THEN Basename(item) ELSE IfrKey(item)

ItemUrl(chart_type, item) == IF chart_type = "vfr" THEN item ELSE item.url

\* os.path.join(DOWNLOAD_DIR, 'sectional') / os.path.join(DOWNLOAD_DIR, chart_type)
OutDir(chart_type) == IF chart_type = "vfr" THEN "sectional" ELSE chart_type

\* local_filename of download_file
ZipPath(chart_type, item) == <<OutDir(chart_type), Basename(ItemUrl(chart_type, item))>>

\* extract_path
ExtractPath(chart_type, item) ==
    IF chart_type = "vfr" THEN <<OutDir(chart_type), StripZip(item)>>
    ELSE <<OutDir(chart_type), IfrKey(item)>>

ZipState(path) ==
    IF \E z \in zips : z.path = path
    THEN (CHOOSE z \in zips : z.path = path).state
    ELSE "none"

SetZip(path, state) ==
    {z \in zips : z.path # path}
    \cup (IF state = "none" THEN {} ELSE {[path |-> path, state |-> state]})

----------------------------------------------------------------------------
(* Upstream listings and command lines *)

VfrLinks ==
    {Url("vfr", "SEA", ".zip"), Url("vfr", "PDX", ".zip")}

IfrLowLinks ==
    {Entry("ELUS1", PyStr("2025-07-11"), Url("enroute", "ELUS1", ".zip")),
     Entry("ELUS2", PyNone, Url("enroute", "ELUS2", ".zip"))}

IfrHighLinks ==
    {Entry("EHUS1", PyStr("2025-07-11"), Url("enroute", "EHUS1", ".zip"))}

SeqsUpTo(S, n) == UNION {[1 .. k -> S] : k \in 0 .. n}

Listings ==
    {l \in [vfr : SeqsUpTo(VfrLinks, MaxTasks),
            ifr_low : SeqsUpTo(IfrLowLinks, MaxTasks),
            ifr_high : SeqsUpTo(IfrHighLinks, MaxTasks)] :
        Len(l.vfr) + Len(l.ifr_low) + Len(l.ifr_high) <= MaxLinks}

\* parse_args: --check-current and --chart-type
AllArgs == [check_current : BOOLEAN, chart_type : {"all", "sectional", "ifr_low", "ifr_high"}]

\* the command lines of the pipeline runs: all chart types
Args == {a \in AllArgs : a.chart_type = "all"}

FirstPhase(a) ==
    IF a.chart_type \in {"all", "sectional"} THEN "vfr" ELSE a.chart_type

\* the batch main runs after the batch of chart type ph, "none" after the last
NextPhase(a, ph) ==
    IF a.chart_type # "all" THEN "none"
    ELSE IF ph = "vfr" THEN "ifr_low"
    ELSE IF ph = "ifr_low" THEN "ifr_high"
    ELSE "none"

\* min(4, os.cpu_count() or 1)
PoolCap == 4
max_workers == IF Cpus < PoolCap THEN Cpus ELSE PoolCap

NoWrites == [o \in {"metadata", "primary", "tmp", "bak"} |-> {}]

----------------------------------------------------------------------------
(* download_faa_charts.main and the batch drivers *)

\* str(e) and f"Unzip failed: {e}": a message is the sequence of its parts
Text(parts) == [type |-> "str", parts |-> parts]

\* the exceptions requests raises in download_file, by their text
DownloadErrors == {"404 Client Error", "Read timed out"}

\* success, err = download_and_extract_zip(...), and the exception e it caught
Returned(success, err, e) == [set |-> TRUE, success |-> success, err |-> err, e |-> e]

NoResult == [set |-> FALSE, success |-> FALSE, err |-> PyNone, e |-> ""]

\* args = parse_args(); metadata = load_metadata()
MainStartWith(cmdlines) ==
    /\ pc[0] \in {"idle", "main_done", "crashed"}
    /\ run < MaxRuns
    /\ run' = run + 1
    /\ \E a \in cmdlines :
          /\ args' = a
          /\ phase' = FirstPhase(a)
    /\ loaded' = Loaded(primary)
    /\ metadata' = loaded'.val
    /\ pc' = [t \in Threads |-> IF t = 0 THEN "fetch" ELSE "idle"]
    /\ fd' = [t \in Threads |-> "none"]
    /\ snap' = [t \in Threads |-> EmptyDict]
    /\ to_download' = <<>>
    /\ result' = [t \in Workers |-> NoResult]
    /\ wrote' = NoWrites
    /\ ndl' = 0
    /\ allok' = TRUE
    /\ prev' = [ran |-> pc[0] # "idle",
                ok |-> pc[0] = "main_done" /\ allok,
                full |-> pc[0] # "idle" /\ args.chart_type = "all"]
    /\ UNCHANGED <<primary, bak, tmp, call, used, conv, net, listing, zips, extracted>>

MainStart == MainStartWith(Args)

\* a faulty variant: current charts are skipped whatever check_current says
FetchSkipsCurrent ==
    /\ pc[0] = "fetch"
    /\ LET Keep(x) == ~IsCurrent(metadata, phase, x)
           todo == SelectSeq(listing[phase], Keep)
       IN /\ to_download' = todo
          /\ pc' = [t \in Threads |->
                      IF t = 0 THEN "wait"
                      ELSE IF t <= Len(todo) THEN "queued" ELSE "idle"]
    /\ result' = [t \in Workers |-> NoResult]
    /\ wrote' = NoWrites
    /\ UNCHANGED <<primary, bak, tmp, fd, snap, metadata, call, loaded>>
    /\ UNCHANGED <<used, conv, net, listing, zips, extracted, run, args, phase, ndl, allok, prev>>

\* process_vfr_charts / process_ifr_charts up to the thread pool: fetch the
\* links, keep those that are not skipped, submit one task per kept link
Fetch ==
    /\ pc[0] = "fetch"
    /\ LET Keep(x) == ~(args.check_current /\ IsCurrent(metadata, phase, x))
           todo == SelectSeq(listing[phase], Keep)
       IN /\ to_download' = todo
          /\ pc' = [t \in Threads |->
                      IF t = 0 THEN "wait"
                      ELSE IF t <= Len(todo) THEN "queued" ELSE "idle"]
    /\ result' = [t \in Workers |-> NoResult]
    /\ wrote' = NoWrites
    /\ UNCHANGED <<primary, bak, tmp, fd, snap, metadata, call, loaded>>
    /\ UNCHANGED <<used, conv, net, listing, zips, extracted, run, args, phase, ndl, allok, prev>>

Running ==
    {t \in Workers : pc[t] \in {"unzip", "record", "save_copy", "save_open",
                                "save_write", "save_replace"}}

\* a pool thread takes the next task of the queue
CanStart(t) ==
    /\ pc[0] = "wait"
    /\ pc[t] = "queued"
    /\ \A u \in 1 .. t - 1 : pc[u] # "queued"
    /\ Cardinality(Running) < max_workers

Leave(t, p, r) ==
    /\ pc' = [pc EXCEPT ![t] = p]
    /\ result' = [result EXCEPT ![t] = r]

\* download_file: the archive is already on disk, no request is made
DownloadSkip(t) ==
    /\ CanStart(t)
    /\ ZipState(ZipPath(phase, to_download[t])) # "none"
    /\ ndl' = ndl + 1
    /\ Leave(t, "unzip", NoResult)
    /\ UNCHANGED <<primary, bak, tmp, fd, snap, metadata, call, loaded, wrote>>
    /\ UNCHANGED <<used, conv, net, listing, zips, extracted, run, args, phase, to_download, allok, prev>>

\* download_file: an attempt succeeds, the archive is complete on disk
DownloadOk(t) ==
    /\ CanStart(t)
    /\ ZipState(ZipPath(phase, to_download[t])) = "none"
    /\ ndl' = ndl + 1
    /\ zips' = SetZip(ZipPath(phase, to_download[t]), "full")
    /\ Leave(t, "unzip", NoResult)
    /\ UNCHANGED <<primary, bak, tmp, fd, snap, metadata, call, loaded, wrote>>
    /\ UNCHANGED <<used, conv, net, listing, extracted, run, args, phase, to_download, allok, prev>>

\* download_file: every attempt fails and the last exception is raised; an
\* attempt that failed while streaming leaves the part it wrote on disk.
\* download_and_extract_zip returns (False, str(e)), no record is written
DownloadFail(t) ==
    /\ CanStart(t)
    /\ ZipState(ZipPath(phase, to_download[t])) = "none"
    /\ ndl' = ndl + 1
    /\ \E left \in {"none", "partial"} :
          zips' = SetZip(ZipPath(phase, to_download[t]), left)
    /\ \E e \in DownloadErrors : Leave(t, "done", Returned(FALSE, Text(<<e>>), e))
    /\ allok' = FALSE
    /\ UNCHANGED <<primary, bak, tmp, fd, snap, metadata, call, loaded, wrote>>
    /\ UNCHANGED <<used, conv, net, listing, extracted, run, args, phase, to_download, prev>>

\* unzip_file: extractall succeeds, then os.remove succeeds or only warns
UnzipOk(t) ==
    /\ pc[t] = "unzip"
    /\ ZipState(ZipPath(phase, to_download[t])) = "full"
    /\ extracted' = extracted \cup {ExtractPath(phase, to_download[t])}
    /\ \E removed \in BOOLEAN :
          zips' = IF removed THEN SetZip(ZipPath(phase, to_download[t]), "none") ELSE zips
    /\ Leave(t, "record", Returned(TRUE, PyNone, ""))
    /\ UNCHANGED <<primary, bak, tmp, fd, snap, metadata, call, loaded, wrote>>
    /\ UNCHANGED <<used, conv, net, listing, run, args, phase, to_download, ndl, allok, prev>>

\* unzip_file: ZipFile or extractall raises (corrupt, partial or vanished
\* archive); the exception is logged and unzip_file returns normally, so
\* download_and_extract_zip returns (True, None)
UnzipSwallow(t) ==
    /\ pc[t] = "unzip"
    /\ Leave(t, "record", Returned(TRUE, PyNone, ""))
    /\ UNCHANGED <<primary, bak, tmp, fd, snap, metadata, call, loaded, wrote>>
    /\ UNCHANGED <<used, conv, net, listing, zips, extracted, run, args, phase, to_download, ndl, allok, prev>>

\* unzip_file: os.makedirs(extract_to) raises outside the try block;
\* download_and_extract_zip returns (False, "Unzip failed: ...")
UnzipRaise(t) ==
    /\ pc[t] = "unzip"
    /\ Leave(t, "done", Returned(FALSE, Text(<<"Unzip failed: ", "File exists">>), "File exists"))
    /\ allok' = FALSE
    /\ UNCHANGED <<primary, bak, tmp, fd, snap, metadata, call, loaded, wrote>>
    /\ UNCHANGED <<used, conv, net, listing, zips, extracted, run, args, phase, to_download, ndl, prev>>

\* download_and_extract_single_vfr / _ifr after a success: write the record
Record(t) ==
    /\ pc[t] = "record"
    /\ metadata' = RecordChart(metadata, phase, to_download[t])
    /\ wrote' = Mark(t, {"metadata"})
    /\ pc' = [pc EXCEPT ![t] = "save_copy"]
    /\ UNCHANGED <<primary, bak, tmp, fd, snap, call, loaded, pipe>>

Finished == \A t \in Workers : pc[t] \in {"idle", "done"}

\* a faulty variant: the driver returns without the final save
BatchJoinNoSave ==
    /\ pc[0] = "wait"
    /\ Finished
    /\ pc' = [pc EXCEPT ![0] = "save_ret"]
    /\ call' = [pre |-> primary, preBak |-> bak, m |-> metadata]
    /\ UNCHANGED <<primary, bak, tmp, fd, snap, metadata, loaded, wrote, pipe>>

\* the with block ends, every task returned: the final backup_and_save_metadata
BatchJoin ==
    /\ pc[0] = "wait"
    /\ Finished
    /\ pc' = [pc EXCEPT ![0] = "save_copy"]
    /\ call' = [pre |-> primary, preBak |-> bak, m |-> metadata]
    /\ UNCHANGED <<primary, bak, tmp, fd, snap, metadata, loaded, wrote, pipe>>

\* a task raised: executor.map re-raises its exception in the main thread and
\* cancels the tasks no pool thread has taken yet, the with block waits for the
\* running tasks, and the exception leaves process_*_charts and main. The final
\* backup_and_save_metadata is not executed
BatchRaise ==
    /\ pc[0] = "wait"
    /\ Running = {}
    /\ \E t \in Workers : pc[t] = "raised"
    /\ pc' = [t \in Threads |->
                IF t = 0 THEN "crashed"
                ELSE IF pc[t] = "queued" THEN "cancelled" ELSE pc[t]]
    /\ allok' = FALSE
    /\ UNCHANGED <<primary, bak, tmp, fd, snap, metadata, call, loaded, wrote>>
    /\ UNCHANGED <<used, conv, net, listing, zips, extracted, run, args, phase, to_download, result, ndl, prev>>

\* return metadata; main goes on to the next chart type or prints the summary
BatchReturn ==
    /\ pc[0] = "save_ret"
    /\ IF NextPhase(args, phase) = "none"
       THEN /\ pc' = [pc EXCEPT ![0] = "main_done"]
            /\ phase' = phase
       ELSE /\ pc' = [pc EXCEPT ![0] = "fetch"]
            /\ phase' = NextPhase(args, phase)
    /\ UNCHANGED <<primary, bak, tmp, fd, snap, metadata, call, loaded, wrote>>
    /\ UNCHANGED <<used, conv, net, listing, zips, extracted, run, args, to_download, result, ndl, allok, prev>>

----------------------------------------------------------------------------
(* The download pipeline: runs of main over a fixed upstream listing *)

NoCall == [pre |-> NoFile, preBak |-> NoFile, m |-> EmptyDict]

InitStore ==
    /\ bak = NoFile
    /\ tmp = NoFile
    /\ fd = [t \in Threads |-> "none"]
    /\ snap = [t \in Threads |-> EmptyDict]
    /\ metadata = EmptyDict
    /\ pc = [t \in Threads |-> "idle"]
    /\ call = NoCall
    /\ loaded = Loaded(NoFile)
    /\ wrote = NoWrites

\* ---------------------------------------------------------------------------
\* The FAA pages and the link extractors

\* an href: scheme and host are "" unless the href starts with 'http'; rooted
\* says it starts with '/'; ext is its last four characters
Href(scheme, host, rooted, dir, stem, ext) ==
    [scheme |-> scheme, host |-> host, rooted |-> rooted,
     dir |-> dir, stem |-> stem, ext |-> ext]

\* a URL: the link a fetch function returns
Link(scheme, host, dir, stem, ext) ==
    [scheme |-> scheme, host |-> host, dir |-> dir, stem |-> stem, ext |-> ext]

\* VFR_CHARTS_URL and IFR_CHARTS_URL, with base_url.rstrip('/') as dir
VFR_CHARTS_URL ==
    [scheme |-> "https", host |-> "www.faa.gov",
     dir |-> "/air_traffic/flight_info/aeronav/digital_products/vfr", slash |-> TRUE]

IFR_CHARTS_URL ==
    [scheme |-> "https", host |-> "www.faa.gov",
     dir |-> "/air_traffic/flight_info/aeronav/digital_products/ifr", slash |-> TRUE]

make_absolute_url(base_url, href) ==
    IF href.scheme # ""
    THEN Link(href.scheme, href.host, href.dir, href.stem, href.ext)
    ELSE IF href.rooted
    THEN Link("https", "www.faa.gov", href.dir, href.stem, href.ext)
    ELSE Link(base_url.scheme, base_url.host, base_url.dir \o "/" \o href.dir,
              href.stem, href.ext)

\* an <a> element of the VFR page: the id of the div it lies in, and its href
\* attribute (<<>> when it has none)
Anchor(tab, href) == [tab |-> tab, href |-> href]

\* the anchors of a tab that carry an href ending in '.zip', made absolute
TabLinks(base_url, anchors, tab_id) ==
    LET Hit(a) == a.tab = tab_id /\ a.href # <<>> /\ a.href[1].ext = ".zip"
        hits == SelectSeq(anchors, Hit)
    IN [i \in 1 .. Len(hits) |-> make_absolute_url(base_url, hits[i].href[1])]

\* a faulty variant: every anchor of the two tabs is returned, whatever its href ends in
fetch_vfr_links_any_extension(base_url, pg) ==
    IF ~pg.ok THEN <<>>
    ELSE LET Hit(a) == a.tab \in {"sectional", "terminalArea"} /\ a.href # <<>>
             hits == SelectSeq(pg.anchors, Hit)
         IN [i \in 1 .. Len(hits) |-> make_absolute_url(base_url, hits[i].href[1])]

\* pg.ok: requests.get and raise_for_status succeeded and the page parsed
fetch_vfr_sectional_and_terminal_links(base_url, pg) ==
    IF ~pg.ok THEN <<>>
    ELSE TabLinks(base_url, pg.anchors, "sectional")
         \o TabLinks(base_url, pg.anchors, "terminalArea")

\* a chart code: head is its first four characters (all of it when shorter)
Code(head, tail) == [head |-> head, tail |-> tail]

IFR_LOW_PREFIXES == {"ELUS"}
IFR_HIGH_PREFIXES == {"EHUS"}
IFR_SKIP_PREFIXES == {"ELAK", "EHAA", "ELHI", "EHPH", "ELPA", "EHPA", "AREA", "EHAK", "EPHI"}

\* chart_code.startswith(prefix) for the four-letter prefixes above
StartsWith(code, prefixes) == code.head \in prefixes

\* the text of a date in a cell: month name, day and year as printed
DateText(mon, day, year) == [mon |-> mon, day |-> day, year |-> year]

MonthNo ==
    [Jan |-> 1, Feb |-> 2, Mar |-> 3, Apr |-> 4, May |-> 5, Jun |-> 6,
     Jul |-> 7, Aug |-> 8, Sep |-> 9, Oct |-> 10, Nov |-> 11, Dec |-> 12]

DigitText == <<"0", "1", "2", "3", "4", "5", "6", "7", "8", "9">>

\* zero-padded decimal text of n in w digits
RECURSIVE Padded(_, _)
Padded(n, w) == IF w = 0 THEN "" ELSE Padded(n \div 10, w - 1) \o DigitText[(n % 10) + 1]

IsLeap(y) == (y % 4 = 0 /\ y % 100 # 0) \/ y % 400 = 0

DaysIn(m, y) ==
    IF m = 2 THEN (IF IsLeap(y) THEN 29 ELSE 28)
    ELSE IF m \in {4, 6, 9, 11} THEN 30 ELSE 31

\* datetime.strptime(text, '%b %d %Y').strftime('%Y-%m-%d'), None when the
\* cell holds no date text or strptime raises
ParseDate(cell) ==
    IF cell = <<>> THEN PyNone
    ELSE LET d == cell[1] IN
         IF d.mon \notin DOMAIN MonthNo THEN PyNone
         ELSE IF d.day < 1 \/ d.day > DaysIn(MonthNo[d.mon], d.year) THEN PyNone
         ELSE PyStr(Padded(d.year, 4) \o "-" \o Padded(MonthNo[d.mon], 2)
                    \o "-" \o Padded(d.day, 2))

\* a <tr> of the IFR page: the number of its cells, the text of the first, the
\* date text of the second (<<>> when none matches) and the anchors of the second
Row(ncells, code, date, links) ==
    [ncells |-> ncells, code |-> code, date |-> date, links |-> links]

\* an <a> of a row: whether its text contains 'geo-tiff', and its href
RowLink(geo, href) == [geo |-> geo, href |-> href]

\* the entries one row contributes
RowEntries(base_url, row, allowed_prefixes) ==
    IF row.ncells < 2 \/ ~StartsWith(row.code, allowed_prefixes)
       \/ StartsWith(row.code, IFR_SKIP_PREFIXES)
    THEN <<>>
    ELSE LET Hit(a) == a.geo /\ a.href # <<>> /\ a.href[1].ext = ".zip"
             hits == SelectSeq(row.links, Hit)
         IN [i \in 1 .. Len(hits) |->
               Entry(row.code.head \o row.code.tail, ParseDate(row.date),
                     make_absolute_url(base_url, hits[i].href[1]))]

RECURSIVE RowsEntries(_, _, _)
RowsEntries(base_url, rows, allowed_prefixes) ==
    IF rows = <<>> THEN <<>>
    ELSE RowEntries(base_url, Head(rows), allowed_prefixes)
         \o RowsEntries(base_url, Tail(rows), allowed_prefixes)

fetch_ifr_low_high_links(base_url, pg, allowed_prefixes) ==
    IF ~pg.ok THEN <<>> ELSE RowsEntries(base_url, pg.rows, allowed_prefixes)

\* no page was fetched
NoWeb ==
    [vfr |-> [ok |-> FALSE, anchors |-> <<>>],
     ifr |-> [ok |-> FALSE, rows |-> <<>>],
     fetched |-> {}]

\* download_file is not being called
NoDl ==
    [pc |-> "idle", url |-> Url("", "", ""), retries |-> 0, delay |-> 0, attempt |-> 0,
     requests |-> 0, tried |-> <<>>, slept |-> <<>>, ret |-> PyNone, exc |-> ""]

\* an optional string of characters: a command-line value or an environment
\* variable that may be absent
NoOpt == [set |-> FALSE, text |-> <<>>]
Opt(text) == [set |-> TRUE, text |-> text]

\* parse_args of convert_faa_charts: the Namespace when no option is given
\* (workers 0 stands for the default None, single_tiff <<>> for none given)
NoConvArgs ==
    [zoom |-> NoOpt, workers |-> 0, keep_vrt |-> FALSE,
     chart_type |-> "none", single_tiff |-> <<>>]

\* no call of convert_tiff has returned
NoRet == [update |-> PyNone, success |-> FALSE]

InitConvIdle ==
    /\ conv_args = NoConvArgs
    /\ jobs = <<>>
    /\ failed = <<>>
    /\ ret = [t \in Threads |-> NoRet]
    /\ tiled = {}
    /\ vrts = {}

InitDownload ==
    /\ web = NoWeb
    /\ dl = NoDl
    /\ zips = {}
    /\ extracted = {}
    /\ run = 0
    /\ args = [check_current |-> FALSE, chart_type |-> "all"]
    /\ phase = "vfr"
    /\ to_download = <<>>
    /\ result = [t \in Workers |-> NoResult]
    /\ ndl = 0
    /\ allok = TRUE
    /\ prev = [ran |-> FALSE, ok |-> FALSE, full |-> FALSE]
    /\ used = [saves |-> 0, kills |-> 0]

InitPipe ==
    /\ environ = [gdal |-> TRUE, FAA_TILE_ZOOM |-> NoOpt]
    /\ downloads = {}
    /\ InitConvIdle
    /\ InitDownload

Init ==
    /\ primary = NoFile
    /\ InitStore
    /\ listing \in Listings
    /\ InitPipe

Task(t) ==
    \/ DownloadSkip(t)
    \/ DownloadOk(t)
    \/ DownloadFail(t)
    \/ UnzipOk(t)
    \/ UnzipSwallow(t)
    \/ UnzipRaise(t)
    \/ Record(t)
    \/ SaveWriteRaise(t)
    \/ SaveReplaceRaise(t)

Save(w) ==
    \/ SaveCopy(w)
    \/ SaveOpen(w)
    \/ SaveWrite(w)
    \/ SaveReplace(w)

Next ==
    \/ MainStart
    \/ Fetch
    \/ \E t \in Workers : Task(t)
    \/ \E w \in Threads : Save(w)
    \/ BatchJoin
    \/ BatchRaise
    \/ BatchReturn

Spec == Init /\ [][Next]_vars

----------------------------------------------------------------------------
(* Properties of the download pipeline *)

SecondRunAfterSuccess == run = 2 /\ prev.ran /\ prev.full /\ prev.ok

RecordedDownloaded(md, chart_type, key) ==
    LET rec == DictGet(DictGet(md, chart_type, EmptyDict), key, PyNone) IN
    /\ rec # PyNone
    /\ DictGet(rec, "downloaded", PyNone) = PyBool(TRUE)

\* C2: every record marked downloaded = true, in the mapping in memory and in
\* the metadata file, belongs to a chart whose archive was extracted
\* successfully.
C2_DownloadedWasExtracted ==
    \A md \in {metadata, load_metadata(primary).val} :
      \A ct \in ChartTypes :
        \A i \in 1 .. Len(listing[ct]) :
          RecordedDownloaded(md, ct, Identity(ct, listing[ct][i]))
            => ExtractPath(ct, listing[ct][i]) \in extracted

\* C3: the primary metadata file is never observed partial or truncated: when
\* it exists it holds one complete JSON document.
C3_PrimaryNeverPartial ==
    primary.exists => ~JsonLoad(primary.data).raised

\* C5: no piece of state is written by more than one worker task of a batch.
C5_NoSharedWrites ==
    \A o \in DOMAIN wrote : Cardinality(wrote[o] \ {0}) <= 1

\* C6: no two tasks dispatched by one batch have the same chart identity.
C6_DisjointCharts ==
    \A i, j \in 1 .. Len(to_download) :
        i # j => Identity(phase, to_download[i]) # Identity(phase, to_download[j])

\* C18: a batch dispatches exactly the listed links that are not skipped: with
\* check_current the links for which the is-current predicate is false on the
\* metadata main loaded, without it every link; tasks exist only for dispatched
\* links, so no download is invoked for a chart that was current.
C18_DispatchExactlyNotCurrent ==
    pc[0] = "wait" =>
        LET ls == listing[phase]
            Cur(x) == IsCurrent(loaded.val, phase, x)
            kept == {i \in 1 .. Len(ls) : ~(args.check_current /\ Cur(ls[i]))}
        IN /\ Len(to_download) = Cardinality(kept)
           /\ \A i \in kept : \E j \in 1 .. Len(to_download) : to_download[j] = ls[i]
           /\ \A j \in 1 .. Len(to_download) : \E i \in kept : ls[i] = to_download[j]
           /\ \A t \in Workers : pc[t] # "idle" => t <= Len(to_download)
           /\ args.check_current =>
                 \A t \in Workers :
                     pc[t] \notin {"idle", "queued", "cancelled"} => ~Cur(to_download[t])

\* a second run with --check-current skips one listed chart that the first
\* run recorded and downloads another one
C18_Witness ==
    /\ pc[0] = "wait"
    /\ args.check_current
    /\ Len(listing[phase]) = 2
    /\ Len(to_download) = 1
    /\ IsCurrent(loaded.val, phase, listing[phase][1])
    /\ pc[1] = "done"
    /\ result[1].success

\* md.get(chart_type, {}).get(key)
Lookup(md, chart_type, key) == DictGet(DictGet(md, chart_type, EmptyDict), key, PyNone)

\* C20: the step of a task that records its chart sets the key of the chart in
\* the sub-mapping of the batch's chart type and changes no other key of any
\* sub-mapping, and it changes the is-current predicate of no chart under
\* another chart type, the recorded chart itself included.
C20_RecordScoped ==
    [][\A t \in Workers :
         (pc[t] = "record" /\ pc'[t] = "save_copy") =>
            LET key == Identity(phase, to_download[t])
                types == ChartTypes \cup DOMAIN metadata.items \cup DOMAIN metadata'.items
                Keys(md, c) == DOMAIN DictGet(md, c, EmptyDict).items
            IN /\ Lookup(metadata', phase, key) # PyNone
               /\ DOMAIN metadata'.items = DOMAIN metadata.items \cup {phase}
               /\ \A c \in types :
                     \A k \in Keys(metadata, c) \cup Keys(metadata', c) \cup {key} :
                         <<c, k>> # <<phase, key>> => Lookup(metadata', c, k) = Lookup(metadata, c, k)
               /\ \A c \in ChartTypes \ {phase} :
                     /\ \A i \in 1 .. Len(listing[c]) :
                           IsCurrent(metadata', c, listing[c][i]) = IsCurrent(metadata, c, listing[c][i])
                     /\ (c # "vfr" /\ phase # "vfr") =>
                           IsCurrent(metadata', c, to_download[t]) = IsCurrent(metadata, c, to_download[t])
      ]_vars

\* a task of the ifr_low batch has just recorded its chart next to the record
\* of a VFR chart, and the chart is not current under ifr_high
C20_Witness ==
    /\ phase = "ifr_low"
    /\ pc[1] = "save_copy"
    /\ Lookup(metadata, "ifr_low", Identity("ifr_low", to_download[1])) # PyNone
    /\ Cardinality(DOMAIN DictGet(metadata, "vfr", EmptyDict).items) = 1
    /\ ~IsCurrent(metadata, "ifr_high", to_download[1])

\* C25: while the workers of a batch save concurrently, no call of
\* backup_and_save_metadata raises, and the primary file holds a complete JSON
\* document whose records are records of the mapping in memory.
C25_ConcurrentSavesComplete ==
    pc[0] = "wait" =>
        /\ \A t \in Workers : pc[t] # "raised"
        /\ primary.exists =>
              LET f == JsonLoad(primary.data)
              IN /\ ~f.raised
                 /\ \A c \in DOMAIN f.val.items :
                       \A k \in DOMAIN f.val.items[c].items :
                           Lookup(metadata, c, k) = f.val.items[c].items[k]

\* C26: when process_vfr_charts / process_ifr_charts returns, the metadata
\* file holds a downloaded record for every chart of the batch whose download
\* and extraction succeeded, and every record main loaded before the run.
C26_NoLostUpdates ==
    pc[0] = "save_ret" =>
        LET f == load_metadata(primary).val
        IN /\ primary.exists
           /\ \A t \in 1 .. Len(to_download) :
                 (result[t].success /\ ExtractPath(phase, to_download[t]) \in extracted)
                    => RecordedDownloaded(f, phase, Identity(phase, to_download[t]))
           /\ \A c \in DOMAIN loaded.val.items :
                 \A k \in DOMAIN loaded.val.items[c].items : Lookup(f, c, k) # PyNone

\* the second run's batch of two charts returned, both were downloaded and
\* extracted by this batch, and the first run had left a record
C26_Witness ==
    /\ pc[0] = "save_ret"
    /\ run = 2
    /\ Len(to_download) = 2
    /\ to_download[1] # to_download[2]
    /\ \A t \in 1 .. 2 : result[t].success /\ ExtractPath(phase, to_download[t]) \in extracted
    /\ DOMAIN loaded.val.items # {}

\* C27: in a batch in which the download or the extraction of a chart failed,
\* the driver does not raise, no dispatched task is cancelled, and the driver
\* goes on to its final backup_and_save_metadata.
C27_FailureIsolated ==
    LET Failed(t) == \/ ~result[t].success
                     \/ ExtractPath(phase, to_download[t]) \notin extracted
    IN (/\ pc[0] \notin {"idle", "fetch", "main_done"}
        /\ \E t \in 1 .. Len(to_download) : result[t].set /\ Failed(t)) =>
          /\ pc[0] # "crashed"
          /\ \A t \in Workers : pc[t] # "cancelled"

\* the tasks of the batch in progress whose download_and_extract_zip returned
Reported == {t \in 1 .. Len(to_download) : pc[0] = "wait" /\ result[t].set}

\* C13: whenever download_and_extract_zip reports success for a chart its
\* archive is no longer in the destination folder, and whenever the extraction
\* of a downloaded archive fails the archive is kept and failure is reported.
C13_ArchiveRemovedOrKept ==
    \A t \in Reported :
        LET zip == ZipState(ZipPath(phase, to_download[t]))
        IN /\ result[t].success => zip = "none"
           /\ (result[t].e \notin DownloadErrors
                 /\ ExtractPath(phase, to_download[t]) \notin extracted)
                => (~result[t].success /\ zip # "none")

\* C14: a task whose download raised has returned (False, message) with the
\* text of the exception in the message, has added no record and has not
\* written the metadata file; a task whose download and extraction raised
\* nothing does not raise and its result is (True, None).
C14_SingleReturns ==
    \A t \in Workers :
        /\ result[t].e \in DownloadErrors =>
              /\ pc[t] = "done"
              /\ ~result[t].success
              /\ result[t].err.type = "str"
              /\ \E i \in 1 .. Len(result[t].err.parts) : result[t].err.parts[i] = result[t].e
              /\ \A o \in DOMAIN wrote : t \notin wrote[o]
        /\ (result[t].set /\ result[t].e = "") =>
              /\ pc[t] # "raised"
              /\ result[t].success
              /\ result[t].err = PyNone

\* C15: unzip_file run on an archive that is not a valid zip raises, so the
\* task's download_and_extract_zip returns (False, "Unzip failed: ..."). The
\* archive of the task is one no other task of the batch touches.
C15_CorruptArchiveReported ==
    \A t \in Reported :
        (result[t].e \notin DownloadErrors
           /\ ZipState(ZipPath(phase, to_download[t])) = "partial"
           /\ \A u \in 1 .. Len(to_download) :
                 u # t => ZipPath(phase, to_download[u]) # ZipPath(phase, to_download[t]))
          => /\ ~result[t].success
             /\ result[t].err.type = "str"
             /\ result[t].err.parts[1] = "Unzip failed: "

----------------------------------------------------------------------------
(* The metadata store on its own: one process that loads and saves mappings *)
(* and can be interrupted at any statement                                 *)

Charts ==
    {[type |-> "vfr", item |-> u] : u \in VfrLinks}
    \cup {[type |-> "ifr_low", item |-> e] : e \in IfrLowLinks}
    \cup {[type |-> "ifr_high", item |-> e] : e \in IfrHighLinks}

\* the mappings the pipeline can build with at most n records
RECURSIVE MetasUpTo(_)
MetasUpTo(n) ==
    IF n = 0 THEN {EmptyDict}
    ELSE LET P == MetasUpTo(n - 1) IN
         P \cup {RecordChart(m, c.type, c.item) : m \in P, c \in Charts}

\* mappings of other hands: the one of the unit tests, and a record that is
\* not marked downloaded
ForeignMetas ==
    {PyDict("foo" :> PyStr("bar")),
     SetRecord(EmptyDict, "vfr", "SEA.zip", PyDict("downloaded" :> PyBool(FALSE)))}

MetaInputs == MetasUpTo(MaxRecords) \cup ForeignMetas

\* texts that are no JSON document: an empty file, the 'notjson' of the unit
\* tests, a document cut short
StrictPrefixes(text) == {p \in Prefixes(text) : Len(p) < Len(text)}

CorruptTexts ==
    {<<Tok("notjson")>>} \cup UNION {StrictPrefixes(JsonDumps(m)) : m \in MetaInputs}

InitTexts ==
    {JsonDumps(m) : m \in MetaInputs}
    \cup {<<>>, <<Tok("notjson")>>}
    \cup DumpCuts(JsonDumps(RecordChart(EmptyDict, "vfr", Url("vfr", "SEA", ".zip"))))

EmptyListing == [vfr |-> <<>>, ifr_low |-> <<>>, ifr_high |-> <<>>]

InitStoreOnly ==
    /\ primary \in {NoFile} \cup {File(t) : t \in InitTexts}
    /\ InitStore
    /\ listing = EmptyListing
    /\ InitPipe

Idle == pc[0] \in {"idle", "reloaded"}

\* metadata = load_metadata()
StLoad ==
    /\ Idle
    /\ loaded' = Loaded(primary)
    /\ metadata' = loaded'.val
    /\ pc' = [pc EXCEPT ![0] = "idle"]
    /\ UNCHANGED <<primary, bak, tmp, fd, snap, call, wrote, pipe>>

\* backup_and_save_metadata(m, METADATA_PATH) is called
StCall ==
    /\ Idle
    /\ used.saves < MaxSaves
    /\ used' = [used EXCEPT !.saves = @ + 1]
    /\ \E m \in MetaInputs :
          /\ metadata' = m
          /\ call' = [pre |-> primary, preBak |-> bak, m |-> m]
    /\ pc' = [pc EXCEPT ![0] = "save_copy"]
    /\ wrote' = NoWrites
    /\ UNCHANGED <<primary, bak, tmp, fd, snap, loaded>>
    /\ UNCHANGED <<conv, net, listing, zips, extracted, run, args, phase, to_download, result, ndl, allok, prev>>

\* load_metadata() right after backup_and_save_metadata returned
StReload ==
    /\ pc[0] = "save_ret"
    /\ loaded' = Loaded(primary)
    /\ pc' = [pc EXCEPT ![0] = "reloaded"]
    /\ UNCHANGED <<primary, bak, tmp, fd, snap, metadata, call, wrote, pipe>>

Killed ==
    /\ used.kills < MaxKills
    /\ used' = [used EXCEPT !.kills = @ + 1]
    /\ pc' = [pc EXCEPT ![0] = "idle"]
    /\ fd' = [fd EXCEPT ![0] = "none"]
    /\ snap' = [snap EXCEPT ![0] = EmptyDict]
    /\ metadata' = EmptyDict

\* the process is interrupted between two statements of a save
StInterrupt ==
    /\ pc[0] \in {"save_copy", "save_open", "save_replace", "sm_open"}
    /\ Killed
    /\ UNCHANGED <<primary, bak, tmp, call, loaded, wrote>>
    /\ UNCHANGED <<conv, net, listing, zips, extracted, run, args, phase, to_download, result, ndl, allok, prev>>

\* the process is interrupted while json.dump writes the .tmp file
StInterruptDump ==
    /\ pc[0] = "save_write"
    /\ \E part \in {<<>>} \cup DumpCuts(JsonDumps(snap[0])) : tmp' = File(part)
    /\ Killed
    /\ UNCHANGED <<primary, bak, call, loaded, wrote>>
    /\ UNCHANGED <<conv, net, listing, zips, extracted, run, args, phase, to_download, result, ndl, allok, prev>>

\* save_metadata(data) is called
SmCall ==
    /\ Idle
    /\ used.saves < MaxSaves
    /\ used' = [used EXCEPT !.saves = @ + 1]
    /\ \E m \in MetaInputs : metadata' = m
    /\ pc' = [pc EXCEPT ![0] = "sm_open"]
    /\ wrote' = NoWrites
    /\ UNCHANGED <<primary, bak, tmp, fd, snap, call, loaded>>
    /\ UNCHANGED <<conv, net, listing, zips, extracted, run, args, phase, to_download, result, ndl, allok, prev>>

\* save_metadata: os.makedirs; open(METADATA_PATH, "w") truncates the file
SmOpen ==
    /\ pc[0] = "sm_open"
    /\ primary' = File(<<>>)
    /\ pc' = [pc EXCEPT ![0] = "sm_write"]
    /\ wrote' = Mark(0, {"primary"})
    /\ UNCHANGED <<bak, tmp, fd, snap, metadata, call, loaded, pipe>>

\* save_metadata: json.dump(data, f, indent=2) and the close of the file
SmWrite ==
    /\ pc[0] = "sm_write"
    /\ primary' = File(JsonDumps(metadata))
    /\ pc' = [pc EXCEPT ![0] = "idle"]
    /\ UNCHANGED <<bak, tmp, fd, snap, metadata, call, loaded, wrote, pipe>>

\* the process is interrupted while save_metadata writes the primary file
SmInterruptDump ==
    /\ pc[0] = "sm_write"
    /\ \E part \in {<<>>} \cup DumpCuts(JsonDumps(metadata)) : primary' = File(part)
    /\ Killed
    /\ UNCHANGED <<bak, tmp, call, loaded, wrote>>
    /\ UNCHANGED <<conv, net, listing, zips, extracted, run, args, phase, to_download, result, ndl, allok, prev>>

NextStore ==
    \/ StLoad
    \/ StCall
    \/ Save(0)
    \/ StReload
    \/ StInterrupt
    \/ StInterruptDump
    \/ SmCall
    \/ SmOpen
    \/ SmWrite
    \/ SmInterruptDump

SpecStore == InitStoreOnly /\ [][NextStore]_vars

----------------------------------------------------------------------------
(* Properties of the metadata store *)

\* C4: when backup_and_save_metadata(m, path) returns, the primary file holds
\* m; if the path existed before the call the .bak file holds what the primary
\* held then, otherwise the call has created no .bak file.
C4_BackupThenPrimary ==
    pc[0] = "save_ret" =>
        /\ primary = File(JsonDumps(call.m))
        /\ call.pre.exists => bak = File(call.pre.data)
        /\ ~call.pre.exists => bak = call.preBak

C4_Witness ==
    /\ pc[0] = "save_ret"
    /\ call.pre.exists
    /\ call.pre.data # JsonDumps(call.m)
    /\ call.preBak # call.pre
    /\ bak = call.pre
    /\ primary = File(JsonDumps(call.m))

\* C8: load_metadata right after backup_and_save_metadata(m, path) returns a
\* mapping equal to m.
C8_RoundTrip ==
    pc[0] = "reloaded" => (~loaded.raised /\ loaded.val = call.m)

C8_Witness ==
    /\ pc[0] = "reloaded"
    /\ call.m \in MetasUpTo(MaxRecords) \ {EmptyDict}
    /\ loaded.val = call.m
    /\ call.pre # File(JsonDumps(call.m))

IsCorrupt(data) == data = <<>> \/ data \in CorruptTexts

\* C9: load_metadata never raises; it returns the stored mapping when the file
\* holds the JSON text of a mapping, and an empty mapping when the file is
\* missing or its content is corrupt.
C9_LoadNeverRaises ==
    /\ ~loaded.raised
    /\ ~loaded.from.exists => loaded.val = EmptyDict
    /\ \A m \in MetaInputs : loaded.from = File(JsonDumps(m)) => loaded.val = m
    /\ (loaded.from.exists /\ IsCorrupt(loaded.from.data)) => loaded.val = EmptyDict

C9_Witness ==
    /\ loaded.from.exists
    /\ loaded.from.data \in CorruptTexts
    /\ Len(loaded.from.data) > 1
    /\ loaded.val = EmptyDict
    /\ ~loaded.raised

\* ---------------------------------------------------------------------------
\* The is-current predicates on their own: main loads a metadata file of any
\* content the store can hold and one batch filters its listing.

InitCurrent ==
    /\ primary \in {NoFile} \cup {File(JsonDumps(m)) : m \in MetaInputs}
    /\ InitStore
    /\ listing \in Listings
    /\ InitPipe

\* main started with any command line
MainStartAny == MainStartWith(AllArgs)

NextCurrent ==
    \/ MainStartAny
    \/ Fetch

SpecCurrent == InitCurrent /\ [][NextCurrent]_vars

\* C7: is_vfr_chart_current / is_ifr_chart_current return true exactly for the
\* chart identities recorded in the chart type's sub-mapping with
\* downloaded = true: a batch run with --check-current skips a listed chart if
\* and only if its identity has such a record.
C7_CurrentIffDownloaded ==
    (pc[0] = "wait" /\ args.check_current) =>
        \A i \in 1 .. Len(listing[phase]) :
            LET item == listing[phase][i] IN
            /\ IsCurrent(metadata, phase, item)
                 <=> RecordedDownloaded(metadata, phase, Identity(phase, item))
            /\ (\E j \in 1 .. Len(to_download) : to_download[j] = item)
                 <=> ~RecordedDownloaded(metadata, phase, Identity(phase, item))

\* ---------------------------------------------------------------------------
\* convert_faa_charts: TIFF files, zoom values, the record of a conversion

\* a file under DOWNLOAD_DIR/dir; clean is clean_chart_name of its name: the
\* stem with every character outside [A-Za-z0-9_-] replaced by '_'
Tiff(dir, stem, ext, clean, paletted) ==
    [dir |-> dir, stem |-> stem, ext |-> ext, clean |-> clean, paletted |-> paletted]

TiffFiles ==
    {Tiff("sectional", "Seattle SEC", ".tif", "Seattle_SEC", TRUE),
     Tiff("ifr_low", "Seattle SEC", ".tif", "Seattle_SEC", FALSE),
     Tiff("ifr_low", "ENR_L01", ".tif", "ENR_L01", FALSE)}

TiffPath(t) == t.dir \o "/" \o t.stem \o t.ext

\* os.path.basename(tiff_path)
FileName(t) == t.stem \o t.ext

clean_chart_name(t) == t.clean

\* out_dir of convert_tiff
TilesDir(t) == t.dir \o "/" \o clean_chart_name(t) \o "_tiles"

\* vrt_path of convert_tiff
VrtPath(t) == TiffPath(t) \o ".vrt"

Digits == {"0", "1", "2", "3", "4", "5", "6", "7", "8", "9"}

IsDigits(z) == Len(z) > 0 /\ \A i \in 1 .. Len(z) : z[i] \in Digits

\* re.fullmatch(r'\d+(-\d+)?', zoom)
validate_zoom(z) ==
    \/ IsDigits(z)
    \/ \E k \in 1 .. Len(z) :
          /\ z[k] = "-"
          /\ IsDigits(SubSeq(z, 1, k - 1))
          /\ IsDigits(SubSeq(z, k + 1, Len(z)))

\* the default "5-12" of --zoom and of FAA_TILE_ZOOM
DefaultZoom == <<"5", "-", "1", "2">>

\* a value Python's `or` keeps: neither None nor the empty string
Truthy(o) == o.set /\ o.text # <<>>

\* args.zoom or os.environ.get("FAA_TILE_ZOOM", "5-12")
get_zoom_from_env_or_args(a, env) ==
    IF Truthy(a.zoom) THEN a.zoom.text
    ELSE IF env.FAA_TILE_ZOOM.set THEN env.FAA_TILE_ZOOM.text
    ELSE DefaultZoom

\* args.zoom or "5-12" of the --single-tiff branch
SingleZoom(a) == IF Truthy(a.zoom) THEN a.zoom.text ELSE DefaultZoom

\* args.workers or int(os.environ.get("FAA_TILE_WORKERS", 4)), FAA_TILE_WORKERS unset
DefaultWorkers == 4
get_workers_from_env_or_args(a) == IF a.workers # 0 THEN a.workers ELSE DefaultWorkers

\* metadata_update of convert_tiff after a successful tiling
ConvRecord(t, used_vrt) ==
    PyDict("converted" :> PyBool(TRUE)
           @@ "used_vrt" :> PyBool(used_vrt)
           @@ "vrt_path" :> (IF used_vrt THEN PyStr(VrtPath(t)) ELSE PyNone)
           @@ "tiles_dir" :> PyStr(TilesDir(t))
           @@ "timestamp" :> PyStr(Now))

\* the TIFF files main collects: those of DOWNLOAD_DIR / chart_type, or all
TiffFilesFound(a) ==
    SetToSeq({t \in downloads : a.chart_type \in {"none", t.dir}})

\* already_converted of process_all_tiffs
AlreadyConverted(md) == DOMAIN DictGet(md, "converted", EmptyDict).items

\* the command lines of the converter
ArgZooms == {NoOpt, Opt(<<>>), Opt(<<"7">>), Opt(<<"5", "-">>)}
EnvZooms == {NoOpt, Opt(<<"x">>)}

\* --workers and --chart-type have no effect together with --single-tiff
ConvArgs ==
    {a \in [zoom : ArgZooms, workers : {0, 1}, keep_vrt : BOOLEAN,
            chart_type : {"none", "ifr_low"},
            single_tiff : {<<>>} \cup {<<t>> : t \in TiffFiles}] :
        a.single_tiff # <<>> => (a.workers = 0 /\ a.chart_type = "none")}

\* what the json.load of main (no try around it) makes of the metadata file
ConvLoad(f) ==
    IF f.exists
    THEN [from |-> f, raised |-> JsonLoad(f.data).raised, val |-> JsonLoad(f.data).val]
    ELSE [from |-> f, raised |-> FALSE, val |-> EmptyDict]

\* ---------------------------------------------------------------------------
\* convert_faa_charts.main up to the first conversion

\* a new process: no thread holds anything of an earlier run
CanBegin ==
    /\ pc[0] \in {"idle", "main_done", "crashed", "exit0", "exit1"}
    /\ run < MaxConvRuns

ConvProcess(p0, queued) ==
    /\ run' = run + 1
    /\ pc' = [t \in Threads |->
                IF t = 0 THEN p0 ELSE IF t <= queued THEN "queued" ELSE "idle"]
    /\ fd' = [t \in Threads |-> "none"]
    /\ snap' = [t \in Threads |-> EmptyDict]
    /\ ret' = [t \in Threads |-> NoRet]
    /\ wrote' = NoWrites
    /\ failed' = <<>>
    /\ UNCHANGED <<primary, bak, tmp, call, environ, downloads, tiled, vrts>>
    /\ UNCHANGED <<net, listing, zips, extracted, args, phase, to_download, result, ndl, allok, prev, used>>

\* check_gdal_tools finds a tool missing: exit(1)
ConvNoTools ==
    /\ CanBegin
    /\ ~environ.gdal
    /\ ConvProcess("exit1", 0)
    /\ UNCHANGED <<metadata, loaded, conv_args, jobs>>

\* json.load raises on the metadata file: the exception leaves main
ConvLoadRaise ==
    /\ CanBegin
    /\ environ.gdal
    /\ ConvLoad(primary).raised
    /\ ConvProcess("crashed", 0)
    /\ loaded' = ConvLoad(primary)
    /\ UNCHANGED <<metadata, conv_args, jobs>>

\* --single-tiff: the metadata is loaded again and the main thread converts
ConvSingle ==
    /\ CanBegin
    /\ environ.gdal
    /\ ~ConvLoad(primary).raised
    /\ \E a \in ConvArgs :
          /\ a.single_tiff # <<>>
          /\ conv_args' = a
    /\ ConvProcess("convert", 0)
    /\ loaded' = ConvLoad(primary)
    /\ metadata' = loaded'.val
    /\ UNCHANGED jobs

\* batch mode, the zoom value fails validate_zoom: exit(1)
ConvBadZoom ==
    /\ CanBegin
    /\ environ.gdal
    /\ ~ConvLoad(primary).raised
    /\ \E a \in ConvArgs :
          /\ a.single_tiff = <<>>
          /\ ~validate_zoom(get_zoom_from_env_or_args(a, environ))
          /\ conv_args' = a
    /\ ConvProcess("exit1", 0)
    /\ loaded' = ConvLoad(primary)
    /\ metadata' = loaded'.val
    /\ UNCHANGED jobs

\* batch mode: process_all_tiffs submits the TIFFs that have no record
ConvBatch ==
    /\ CanBegin
    /\ environ.gdal
    /\ ~ConvLoad(primary).raised
    /\ \E a \in ConvArgs :
          /\ a.single_tiff = <<>>
          /\ validate_zoom(get_zoom_from_env_or_args(a, environ))
          /\ conv_args' = a
          /\ LET NotYet(t) == FileName(t) \notin AlreadyConverted(ConvLoad(primary).val)
             IN jobs' = SelectSeq(TiffFilesFound(a), NotYet)
    /\ ConvProcess("wait", Len(jobs'))
    /\ loaded' = ConvLoad(primary)
    /\ metadata' = loaded'.val

\* ---------------------------------------------------------------------------
\* convert_single_tiff, run by a pool thread (tiff_task) or by the main thread
\* (--single-tiff), and convert_tiff, one call per step

ConvRunning ==
    {t \in Workers : pc[t] \in {"converted", "save_copy", "save_open",
                                "save_write", "save_replace"}}

\* the thread is about to call convert_tiff
ConvReady(w) ==
    IF w = 0 THEN pc[0] = "convert"
    ELSE /\ pc[0] = "wait"
         /\ pc[w] = "queued"
         /\ \A u \in 1 .. w - 1 : pc[u] # "queued"
         /\ Cardinality(ConvRunning) < get_workers_from_env_or_args(conv_args)

\* tiff_path of the call
Job(w) == IF w = 0 THEN conv_args.single_tiff[1] ELSE jobs[w]

\* zoom of the call
Zoom == IF conv_args.single_tiff # <<>> THEN SingleZoom(conv_args)
        ELSE get_zoom_from_env_or_args(conv_args, environ)

\* is_paletted_tiff: gdalinfo reports the palette, or fails and False is returned
SeenPaletted(t) == IF t \in downloads /\ t.paletted THEN {TRUE, FALSE} ELSE {FALSE}

\* run_gdal2tiles on the TIFF or on its VRT
Tiling(t, pal, ok) ==
    [input |-> IF pal THEN VrtPath(t) ELSE TiffPath(t),
     out_dir |-> TilesDir(t), zoom |-> Zoom, ok |-> ok]

\* the .vrt files after the clean-up at the end of convert_tiff
VrtsAfter(t, pal) ==
    IF ~pal THEN vrts
    ELSE IF conv_args.keep_vrt THEN vrts \cup {VrtPath(t)}
    ELSE vrts \ {VrtPath(t)}

ConvReturn(w, update, success) ==
    /\ ret' = [ret EXCEPT ![w] = [update |-> update, success |-> success]]
    /\ pc' = [pc EXCEPT ![w] = "converted"]
    /\ UNCHANGED <<primary, bak, tmp, fd, snap, metadata, call, loaded, wrote>>
    /\ UNCHANGED <<environ, downloads, conv_args, jobs, failed>>
    /\ UNCHANGED <<net, listing, zips, extracted, run, args, phase, to_download, result, ndl, allok, prev, used>>

\* convert_tiff: the tiles are written, (file_name, metadata_update, True)
ConvertTiled(w) ==
    /\ ConvReady(w)
    /\ Job(w) \in downloads
    /\ \E pal \in SeenPaletted(Job(w)) :
          /\ tiled' = tiled \cup {Tiling(Job(w), pal, TRUE)}
          /\ vrts' = VrtsAfter(Job(w), pal)
          /\ ConvReturn(w, ConvRecord(Job(w), pal), TRUE)

\* convert_tiff: gdal_translate fails, having written the .vrt file or not, and
\* (file_name, None, False) is returned at once, before the clean-up
ConvertVrtFailed(w) ==
    /\ ConvReady(w)
    /\ TRUE \in SeenPaletted(Job(w))
    /\ \E left \in BOOLEAN :
          vrts' = IF left THEN vrts \cup {VrtPath(Job(w))} ELSE vrts
    /\ ConvReturn(w, PyNone, FALSE)
    /\ UNCHANGED tiled

\* convert_tiff: gdal2tiles.py fails, (file_name, None, False)
ConvertTilesFailed(w) ==
    /\ ConvReady(w)
    /\ \E pal \in SeenPaletted(Job(w)) :
          /\ tiled' = tiled \cup {Tiling(Job(w), pal, FALSE)}
          /\ vrts' = VrtsAfter(Job(w), pal)
          /\ ConvReturn(w, PyNone, FALSE)

\* metadata.setdefault('converted', {})[file_name] = metadata_update, then
\* backup_and_save_metadata(metadata, METADATA_PATH)
ConvUpdate(w) ==
    /\ pc[w] = "converted"
    /\ ret[w].success
    /\ metadata' = SetRecord(metadata, "converted", FileName(Job(w)), ret[w].update)
    /\ wrote' = Mark(w, {"metadata"})
    /\ pc' = [pc EXCEPT ![w] = "save_copy"]
    /\ UNCHANGED <<primary, bak, tmp, fd, snap, call, loaded, pipe>>

\* not success: tiff_task appends the name to failed; the main thread of
\* --single-tiff prints the outcome and calls exit(0)
ConvFailed(w) ==
    /\ pc[w] = "converted"
    /\ ~ret[w].success
    /\ failed' = IF w = 0 THEN failed ELSE Append(failed, FileName(Job(w)))
    /\ pc' = [pc EXCEPT ![w] = IF w = 0 THEN "exit0" ELSE "done"]
    /\ UNCHANGED <<primary, bak, tmp, fd, snap, metadata, call, loaded, wrote>>
    /\ UNCHANGED <<environ, downloads, conv_args, jobs, ret, tiled, vrts>>
    /\ UNCHANGED <<net, listing, zips, extracted, run, args, phase, to_download, result, ndl, allok, prev, used>>

\* the with block of process_all_tiffs ends, every task returned: main calls
\* the final backup_and_save_metadata
ConvJoin ==
    /\ pc[0] = "wait"
    /\ conv_args.single_tiff = <<>>
    /\ \A t \in Workers : pc[t] \in {"idle", "done"}
    /\ pc' = [pc EXCEPT ![0] = "save_copy"]
    /\ UNCHANGED <<primary, bak, tmp, fd, snap, metadata, call, loaded, wrote, pipe>>

\* a task raised inside backup_and_save_metadata: executor.map re-raises in the
\* main thread, the queued tasks are cancelled, the exception leaves main
ConvJoinRaise ==
    /\ pc[0] = "wait"
    /\ conv_args.single_tiff = <<>>
    /\ ConvRunning = {}
    /\ \E t \in Workers : pc[t] = "raised"
    /\ pc' = [t \in Threads |->
                IF t = 0 THEN "crashed"
                ELSE IF pc[t] = "queued" THEN "cancelled" ELSE pc[t]]
    /\ UNCHANGED <<primary, bak, tmp, fd, snap, metadata, call, loaded, wrote, pipe>>

\* the save of the main thread returned: exit(0) after --single-tiff, the
\* summary and the end of main in batch mode
ConvEnd ==
    /\ pc[0] = "save_ret"
    /\ pc' = [pc EXCEPT ![0] = IF conv_args.single_tiff # <<>> THEN "exit0" ELSE "main_done"]
    /\ UNCHANGED <<primary, bak, tmp, fd, snap, metadata, call, loaded, wrote, pipe>>

\* ---------------------------------------------------------------------------
\* The converter: runs of convert_faa_charts.main over the files on disk

\* metadata files the converter can find: none, one holding a record, one that
\* is no JSON, one cut short by an interrupted write
ConvTexts ==
    LET m == SetRecord(EmptyDict, "converted", "Seattle SEC.tif",
                       ConvRecord(Tiff("sectional", "Seattle SEC", ".tif", "Seattle_SEC", TRUE), TRUE))
    IN {JsonDumps(m), <<Tok("notjson")>>} \cup DumpCuts(JsonDumps(m))

InitConvert ==
    /\ primary \in {NoFile} \cup {File(t) : t \in ConvTexts}
    /\ InitStore
    /\ listing = EmptyListing
    /\ InitDownload
    /\ environ \in [gdal : BOOLEAN, FAA_TILE_ZOOM : EnvZooms]
    /\ downloads \in {S \in SUBSET TiffFiles : Cardinality(S) <= MaxTasks}
    /\ InitConvIdle

ConvStart ==
    \/ ConvNoTools
    \/ ConvLoadRaise
    \/ ConvSingle
    \/ ConvBadZoom
    \/ ConvBatch

Convert(w) ==
    \/ ConvertTiled(w)
    \/ ConvertVrtFailed(w)
    \/ ConvertTilesFailed(w)
    \/ ConvUpdate(w)
    \/ ConvFailed(w)
    \/ SaveWriteRaise(w)
    \/ SaveReplaceRaise(w)

NextConvert ==
    \/ ConvStart
    \/ \E w \in Threads : Convert(w)
    \/ \E w \in Threads : Save(w)
    \/ ConvJoin
    \/ ConvJoinRaise
    \/ ConvEnd

SpecConvert == InitConvert /\ [][NextConvert]_vars

\* C10: when convert_faa_charts.main starts with a metadata file whose content
\* is corrupt, the load yields an empty mapping and main goes on without
\* raising.
C10_CorruptLoadsEmpty ==
    (run > 0 /\ loaded.from.exists /\ IsCorrupt(loaded.from.data))
        => /\ pc[0] # "crashed"
           /\ ~loaded.raised
           /\ loaded.val = EmptyDict

\* C17: in process_all_tiffs no worker task of the thread pool writes the
\* metadata mapping or the metadata file: every write is the main thread's.
C17_OnlyMainWrites ==
    \A o \in DOMAIN wrote : wrote[o] \subseteq {0}

\* C21: every tiling of a palette-indexed TIFF reads its RGBA VRT; a call of
\* convert_tiff that has returned has a metadata update exactly when it
\* returned success, success means the tiles were written, and with keep_vrt
\* false the VRT of the call's TIFF is not on disk.
C21_ConvertTiff ==
    /\ \A t \in downloads : \A x \in tiled :
          (t.paletted /\ x.out_dir = TilesDir(t)) => x.input = VrtPath(t)
    /\ \A w \in Threads :
          pc[w] = "converted" =>
             /\ (ret[w].update # PyNone) <=> ret[w].success
             /\ ret[w].success =>
                   \E x \in tiled : x.out_dir = TilesDir(Job(w)) /\ x.ok
             /\ ~conv_args.keep_vrt => VrtPath(Job(w)) \notin vrts

\* C28: every zoom value gdal2tiles.py was invoked with satisfies
\* validate_zoom, and a run of main whose zoom value does not satisfy it has
\* exited with status 1 without any conversion.
C28_ZoomValidated ==
    /\ \A x \in tiled : validate_zoom(x.zoom)
    /\ (run > 0 /\ environ.gdal /\ ~loaded.raised /\ ~validate_zoom(Zoom)) =>
          (pc[0] = "exit1" /\ tiled = {})

\* the record of TIFF t in mapping md: the one under its file name whose tiles
\* directory is the one convert_tiff derives from the path of t
HasRecordOf(md, t) ==
    LET rec == DictGet(DictGet(md, "converted", EmptyDict), FileName(t), PyNone)
    IN /\ rec # PyNone
       /\ DictGet(rec, "tiles_dir", PyNone) = PyStr(TilesDir(t))

\* C19: process_all_tiffs submits exactly the TIFF files found that have no
\* record of their own in the metadata loaded at the start of the run: a TIFF
\* that was never converted is never skipped.
C19_ConvertsExactlyUnrecorded ==
    (pc[0] = "wait" /\ conv_args.single_tiff = <<>>) =>
        LET found == TiffFilesFound(conv_args)
        IN \A i \in 1 .. Len(found) :
              (\E j \in 1 .. Len(jobs) : jobs[j] = found[i])
                <=> ~HasRecordOf(loaded.val, found[i])

\* ---------------------------------------------------------------------------
\* The link extractors on their own: the FAA pages hold any anchors and rows,
\* and each chart type's links are fetched once.

\* the pages: anchors in and outside the two tabs, with and without an href,
\* ending in '.zip' or not; rows with allowed, skipped and other chart codes,
\* with a date, without one, and with one no calendar holds
Pages ==
    LET VfrHrefs ==
            {Href("https", "aeronav.faa.gov", FALSE, "/visual/", "Seattle", ".zip"),
             Href("", "", TRUE, "/visual/", "Seattle", ".zip"),
             Href("", "", FALSE, "", "Seattle_TAC", ".zip"),
             Href("", "", FALSE, "", "Seattle", ".pdf")}
        VfrAnchors ==
            {Anchor(tab, h) : tab \in {"sectional", "terminalArea", "helicopter"},
                              h \in {<<>>} \cup {<<x>> : x \in VfrHrefs}}
        IfrHrefs ==
            {Href("https", "aeronav.faa.gov", FALSE, "/enroute/", "delus1", ".zip"),
             Href("", "", TRUE, "/enroute/", "delus1", ".pdf")}
        RowLinks == {RowLink(geo, <<h>>) : geo \in BOOLEAN, h \in IfrHrefs}
        IfrRows ==
            {Row(2, c, d, l) :
                c \in {Code("ELUS", "1"), Code("EHUS", "1"), Code("ELAK", "1"), Code("EL", "")},
                d \in {<<>>, <<DateText("Jul", 11, 2025)>>, <<DateText("Feb", 30, 2025)>>},
                l \in SeqsUpTo(RowLinks, 1)}
            \cup {Row(1, Code("ELUS", "1"), <<>>, <<>>)}
    IN {w \in [vfr : [ok : BOOLEAN, anchors : SeqsUpTo(VfrAnchors, MaxPageItems)],
               ifr : [ok : BOOLEAN, rows : SeqsUpTo(IfrRows, MaxPageItems)],
               fetched : {{}}] :
           /\ Len(w.vfr.anchors) + Len(w.ifr.rows) <= MaxPageItems
           /\ Len(w.ifr.rows) <= 1
           /\ w.vfr.ok \/ w.ifr.ok}

InitLinks ==
    /\ primary = NoFile
    /\ InitStore
    /\ listing = EmptyListing
    /\ environ = [gdal |-> TRUE, FAA_TILE_ZOOM |-> NoOpt]
    /\ downloads = {}
    /\ InitConvIdle
    /\ web \in Pages
    /\ dl = NoDl
    /\ zips = {}
    /\ extracted = {}
    /\ run = 0
    /\ args = [check_current |-> FALSE, chart_type |-> "all"]
    /\ phase = "vfr"
    /\ to_download = <<>>
    /\ result = [t \in Workers |-> NoResult]
    /\ ndl = 0
    /\ allok = TRUE
    /\ prev = [ran |-> FALSE, ok |-> FALSE, full |-> FALSE]
    /\ used = [saves |-> 0, kills |-> 0]

\* process_vfr_charts: vfr_links = fetch_vfr_sectional_and_terminal_links(VFR_CHARTS_URL)
FetchVfrLinks ==
    /\ "vfr" \notin web.fetched
    /\ listing' = [listing EXCEPT
                     !.vfr = fetch_vfr_sectional_and_terminal_links(VFR_CHARTS_URL, web.vfr)]
    /\ web' = [web EXCEPT !.fetched = @ \cup {"vfr"}]
    /\ UNCHANGED <<store, conv, dl>>
    /\ UNCHANGED <<zips, extracted, run, args, phase, to_download, result, ndl, allok, prev, used>>

AllowedPrefixes(chart_type) ==
    IF chart_type = "ifr_low" THEN IFR_LOW_PREFIXES ELSE IFR_HIGH_PREFIXES

\* process_ifr_charts: links = fetch_ifr_low_high_links(IFR_CHARTS_URL, allowed_prefixes)
FetchIfrLinks(chart_type) ==
    /\ chart_type \notin web.fetched
    /\ listing' = [listing EXCEPT
                     ![chart_type] = fetch_ifr_low_high_links(IFR_CHARTS_URL, web.ifr,
                                                              AllowedPrefixes(chart_type))]
    /\ web' = [web EXCEPT !.fetched = @ \cup {chart_type}]
    /\ UNCHANGED <<store, conv, dl>>
    /\ UNCHANGED <<zips, extracted, run, args, phase, to_download, result, ndl, allok, prev, used>>

NextLinks ==
    \/ FetchVfrLinks
    \/ \E ct \in {"ifr_low", "ifr_high"} : FetchIfrLinks(ct)

SpecLinks == InitLinks /\ [][NextLinks]_vars

\* the anchor is one the VFR extractor is to return
InZipTab(a) ==
    a.tab \in {"sectional", "terminalArea"} /\ a.href # <<>> /\ a.href[1].ext = ".zip"

IsAbsolute(link) == link.scheme \in {"http", "https"} /\ link.host # ""

\* C11: when the VFR page was fetched, fetch_vfr_sectional_and_terminal_links
\* returns exactly the links, made absolute, of the anchors that lie in the tab
\* 'sectional' or 'terminalArea' and whose href ends with '.zip': each returned
\* link belongs to such an anchor, and each such anchor has its link returned.
C11_VfrLinksFiltered ==
    ("vfr" \in web.fetched /\ web.vfr.ok) =>
        LET as == web.vfr.anchors
            ls == listing.vfr
        IN /\ \A i \in 1 .. Len(ls) :
                /\ IsAbsolute(ls[i])
                /\ ls[i].ext = ".zip"
                /\ \E j \in 1 .. Len(as) :
                      /\ InZipTab(as[j])
                      /\ ls[i] = make_absolute_url(VFR_CHARTS_URL, as[j].href[1])
           /\ \A j \in 1 .. Len(as) :
                InZipTab(as[j]) =>
                    \E i \in 1 .. Len(ls) :
                        ls[i] = make_absolute_url(VFR_CHARTS_URL, as[j].href[1])
           /\ Len(ls) = Cardinality({j \in 1 .. Len(as) : InZipTab(as[j])})

C11_Witness ==
    /\ "vfr" \in web.fetched
    /\ web.vfr.ok
    /\ Len(web.vfr.anchors) = 2
    /\ web.vfr.anchors[1].tab = "helicopter"
    /\ web.vfr.anchors[1].href # <<>>
    /\ web.vfr.anchors[1].href[1].ext = ".zip"
    /\ web.vfr.anchors[2].tab = "terminalArea"
    /\ Len(listing.vfr) = 1
    /\ listing.vfr[1].host = "www.faa.gov"

\* C12: every entry fetch_ifr_low_high_links returns comes from a row whose
\* chart code starts with an allowed prefix and with no skip prefix, and
\* carries the parsed publication date of that row, a YYYY-MM-DD string and
\* never a missing value.
C12_IfrEntriesDated ==
    \A ct \in {"ifr_low", "ifr_high"} :
        ct \in web.fetched =>
            \A i \in 1 .. Len(listing[ct]) :
                LET e == listing[ct][i] IN
                /\ \E j \in 1 .. Len(web.ifr.rows) :
                      LET r == web.ifr.rows[j] IN
                      /\ e.chart_code = r.code.head \o r.code.tail
                      /\ StartsWith(r.code, AllowedPrefixes(ct))
                      /\ ~StartsWith(r.code, IFR_SKIP_PREFIXES)
                      /\ e.published_date = ParseDate(r.date)
                /\ e.published_date # PyNone
                /\ e.published_date.type = "str"

\* ---------------------------------------------------------------------------
\* download_file on its own: one call, for every sequence of attempt outcomes

Delays == {0, 5}

InitRetry ==
    /\ primary = NoFile
    /\ InitStore
    /\ listing = EmptyListing
    /\ environ = [gdal |-> TRUE, FAA_TILE_ZOOM |-> NoOpt]
    /\ downloads = {}
    /\ InitConvIdle
    /\ web = NoWeb
    /\ dl = NoDl
    /\ zips \in {{}, {[path |-> ZipPath("vfr", Url("vfr", "SEA", ".zip")), state |-> "full"]}}
    /\ extracted = {}
    /\ run = 0
    /\ args = [check_current |-> FALSE, chart_type |-> "all"]
    /\ phase = "vfr"
    /\ to_download = <<>>
    /\ result = [t \in Workers |-> NoResult]
    /\ ndl = 0
    /\ allok = TRUE
    /\ prev = [ran |-> FALSE, ok |-> FALSE, full |-> FALSE]
    /\ used = [saves |-> 0, kills |-> 0]

\* local_filename = os.path.join(dest_folder, url.split('/')[-1])
local_filename == ZipPath("vfr", dl.url)

DlFrame ==
    /\ UNCHANGED <<store, conv, web>>
    /\ UNCHANGED <<listing, extracted, run, args, phase, to_download, result, ndl, allok, prev, used>>

\* a faulty variant: the file is never found on disk
path_exists_never(path) == FALSE

\* os.path.exists(local_filename)
path_exists(path) == ZipState(path) # "none"

\* download_file(url, dest_folder, retries, delay) up to the loop: return at
\* once when the file exists; range(1, retries + 1) is empty when retries < 1
\* and the function then ends without a return statement
DlCall ==
    /\ dl.pc = "idle"
    /\ \E url \in VfrLinks, retries \in 0 .. MaxRetries, delay \in Delays :
          LET d == [dl EXCEPT !.url = url, !.retries = retries, !.delay = delay]
              path == ZipPath("vfr", url)
          IN dl' = IF path_exists(path)
                   THEN [d EXCEPT !.pc = "returned", !.ret = PyStr(path)]
                   ELSE IF retries >= 1
                        THEN [d EXCEPT !.pc = "get", !.attempt = 1]
                        ELSE [d EXCEPT !.pc = "returned", !.ret = PyNone]
    /\ UNCHANGED zips
    /\ DlFrame

\* an attempt succeeds: the response is streamed to the file, return local_filename
DlGetOk ==
    /\ dl.pc = "get"
    /\ zips' = SetZip(local_filename, "full")
    /\ dl' = [dl EXCEPT !.pc = "returned", !.requests = @ + 1, !.ret = PyStr(local_filename)]
    /\ DlFrame

\* a faulty variant: the exception of the first attempt is raised
ReraiseFirst(tried) == tried[1]

\* a bare raise in the except block: the exception being handled
Reraise(tried) == tried[Len(tried)]

\* an attempt fails with exception e, before the file is opened or while it is
\* written; sleep when attempts are left, otherwise raise
DlGetFail ==
    /\ dl.pc = "get"
    /\ \E e \in DownloadErrors, left \in {ZipState(local_filename), "partial"} :
          LET tried == Append(dl.tried, e)
          IN /\ zips' = SetZip(local_filename, left)
             /\ dl' = IF dl.attempt < dl.retries
                      THEN [dl EXCEPT !.pc = "sleep", !.requests = @ + 1, !.tried = tried]
                      ELSE [dl EXCEPT !.pc = "raised", !.requests = @ + 1, !.tried = tried,
                                      !.exc = Reraise(tried)]
    /\ DlFrame

\* time.sleep(delay), then the next attempt of the loop
DlSleep ==
    /\ dl.pc = "sleep"
    /\ dl' = [dl EXCEPT !.pc = "get", !.attempt = @ + 1,
                        !.slept = Append(@, [after |-> dl.attempt, secs |-> dl.delay])]
    /\ UNCHANGED zips
    /\ DlFrame

NextRetry ==
    \/ DlCall
    \/ DlGetOk
    \/ DlGetFail
    \/ DlSleep

\* every attempt ends, with a response or with an exception
SpecRetry == InitRetry /\ [][NextRetry]_vars /\ WF_vars(NextRetry)

RetrySafe ==
    LET n == Len(dl.tried)
    IN /\ dl.requests <= dl.retries
       /\ \A i \in 1 .. Len(dl.slept) :
             /\ dl.slept[i] = [after |-> i, secs |-> dl.delay]
             /\ i <= n
             /\ i < dl.retries
       /\ dl.pc = "get" => (dl.requests = n /\ Len(dl.slept) = n /\ dl.attempt = n + 1)
       /\ dl.pc = "sleep" => Len(dl.slept) = n - 1
       /\ (dl.pc = "returned" /\ dl.requests > 0) =>
             /\ dl.requests = n + 1
             /\ Len(dl.slept) = n
             /\ dl.ret.type = "str"
             /\ dl.ret.v = local_filename
             /\ ZipState(local_filename) = "full"
       /\ dl.pc = "raised" =>
             /\ dl.requests = dl.retries
             /\ n = dl.retries
             /\ Len(dl.slept) = n - 1
             /\ dl.exc = dl.tried[n]

\* C16: download_file makes at most `retries` requests, sleeps `delay` only
\* after a failed attempt that is followed by another attempt, returns the
\* local path at the first attempt that succeeds, raises the exception of the
\* last attempt when that one fails too, and every call ends.
C16_BoundedRetry == []RetrySafe /\ <>(dl.pc \in {"returned", "raised"})

C16_Witness ==
    /\ dl.pc = "raised"
    /\ dl.retries = MaxRetries
    /\ dl.delay = 5
    /\ Len(dl.slept) = 2
    /\ dl.tried[1] # dl.tried[3]

\* C22: a call of download_file that finds the file named after the last
\* segment of the URL in dest_folder returns its path at once, makes no HTTP
\* request and leaves the file as it is.
C22_SkipsExisting ==
    [][(dl.pc = "idle" /\ dl'.pc # "idle" /\ ZipState(ZipPath("vfr", dl'.url)) # "none") =>
          /\ dl'.pc = "returned"
          /\ dl'.ret.type = "str"
          /\ dl'.ret.v = ZipPath("vfr", dl'.url)
          /\ dl'.requests = 0
          /\ zips' = zips
      ]_vars

C22_Witness ==
    /\ dl.pc = "returned"
    /\ dl.retries = MaxRetries
    /\ dl.requests = 0
    /\ dl.ret.type = "str"
    /\ ZipState(local_filename) = "full"

\* C23: when download_file raises, no file exists at the local archive path.
C23_FailureLeavesNothing ==
    dl.pc = "raised" => ZipState(local_filename) = "none"

\* C24: a call of download_file that returns, returns the path of a file that
\* exists on disk; it never returns without a path.
C24_ReturnsPathOrRaises ==
    dl.pc = "returned" =>
        /\ dl.ret.type = "str"
        /\ ZipState(dl.ret.v) # "none"

====
